---- MODULE Spec2Model ----
(***************************************************************************)
(* Model of src/src/lib/boros/client.ts: the HyperliquidClient streaming   *)
(* subscription (subscribeToUpdates / disconnect / isConnected with the    *)
(* WebSocket handlers it installs) and the BorosClient REST operations.    *)
(*                                                                         *)
(* Units: time is counted in seconds (the source counts milliseconds, so   *)
(* the 5000 of setTimeout is 5 here).  Rates are counted in millionths     *)
(* (0.0001 is 100, 0.00005 is 50), prices of yield units in hundredths.    *)
(***************************************************************************)
EXTENDS Integers, Sequences, FiniteSets, TLC

VARIABLES wsConnection, conns, timers, extCalls, lastEvent, rest, view

vars == <<wsConnection, conns, timers, extCalls, lastEvent, rest, view>>

wsVars == <<wsConnection, conns, timers, extCalls, lastEvent>>

(***************************************************************************)
(* Bounds of the model.                                                    *)
(***************************************************************************)
\* number of subscribeToUpdates calls made by callers outside the client
MaxCalls == 2
\* longest data payload of an inbound message
MaxEntries == 2
\* seconds that pass in one step of the clock
TickStep == 2
\* largest `days` argument of getHistoricalRates
MaxDays == 2

(***************************************************************************)
(* Program constants.                                                      *)
(***************************************************************************)
\* setTimeout(..., 5000): the reconnect delay, in seconds
ReconnectDelay == 5

Null == 0
ConnIds == 1..MaxCalls
Callbacks == {"cb1", "cb2"}

\* a slot of the model that holds no WebSocket object
NoConn == [readyState |-> "NONE", cb |-> "none", subs |-> 0]

NoMsg == [wellFormed |-> TRUE, isNull |-> TRUE, channel |-> "none",
          hasData |-> FALSE, data |-> <<>>]

\* the record of the step that was taken last (history, not program state)
Ev(type, conn, cb) ==
    [type |-> type, conn |-> conn, cb |-> cb, raised |-> FALSE,
     closeCalled |-> FALSE, constructed |-> FALSE, waited |-> 0,
     sentOn |-> Null, msg |-> NoMsg, calls |-> <<>>, afterFault |-> FALSE,
     afterDisconnect |-> FALSE]

RestIdle == [op |-> "none", phase |-> "idle"]

(***************************************************************************)
(* Helpers on the WebSocket objects.                                       *)
(***************************************************************************)
\* a WebSocket object that is closed and no longer referenced by the client
\* is unreachable: its slot is free again
Collect(cs, ref) ==
    [i \in ConnIds |->
        IF cs[i].readyState = "CLOSED" /\ i # ref THEN NoConn ELSE cs[i]]

FreeSlots(cs) == {i \in ConnIds : cs[i].readyState = "NONE"}

Min(S) == CHOOSE x \in S : \A y \in S : x <= y

RemoveAt(s, i) == [j \in 1..(Len(s) - 1) |-> IF j < i THEN s[j] ELSE s[j + 1]]

\* the empty object {}
EmptyRecord == [a \in {} |-> 0]

\* MarketOverview once mounted, its effect started: the useState initial
\* values, then setLoading(true), setError(null) and the price request in
\* flight.  A nullable field is <<>> for null and <<v>> for the value v; the
\* error field is <<>> for null, or the message.  priceFailed, ratesFailed,
\* cleaned and cleanedAt are history: whether each request failed, whether
\* the cleanup has run, and at which point of the initialization it ran.
ViewInit ==
    [pc |-> "price", hypePrice |-> <<>>, fundingRates |-> EmptyRecord,
     marketData |-> EmptyRecord, loading |-> TRUE, error |-> <<>>,
     priceFailed |-> FALSE, ratesFailed |-> FALSE, cleaned |-> FALSE,
     cleanedAt |-> "none"]

Init ==
    /\ wsConnection = Null
    /\ conns = [i \in ConnIds |-> NoConn]
    /\ timers = <<>>
    /\ extCalls = 0
    /\ lastEvent = Ev("init", Null, "none")
    /\ rest = RestIdle
    /\ view = ViewInit

(***************************************************************************)
(* Inbound frames.  A frame is the text of event.data; JSON.parse either   *)
(* throws (the text is not JSON) or yields a value: null, or an object     *)
(* with a channel and possibly a data object.  A data object is the        *)
(* sequence of its entries <<symbol, value>> in Object.entries order; a    *)
(* value is a string (a sequence of characters) or a number.               *)
(***************************************************************************)
Symbols == {"HYPE", "BTC", "ETH"}

Str(chars) == [type |-> "string", chars |-> chars, num |-> 0]
Num(n) == [type |-> "number", chars |-> <<>>, num |-> n]

Values == {Str(<<"1", "2">>), Str(<<"-", "3", "x">>), Str(<<"x">>), Num(7)}

\* the data objects of exactly n entries with values in V
PayloadsOf(V, n) ==
    {d \in [1..n -> Symbols \X V] : \A i, j \in 1..n : i # j => d[i][1] # d[j][1]}

\* every data object of at most one entry, and the longer ones over one
\* string and one number
Payloads ==
    PayloadsOf(Values, 0) \cup PayloadsOf(Values, 1)
    \cup UNION {PayloadsOf({Str(<<"1", "2">>), Num(7)}, n) : n \in 2..MaxEntries}

Frames ==
    {[wellFormed |-> FALSE, isNull |-> FALSE, channel |-> "none",
      hasData |-> FALSE, data |-> <<>>],
     [wellFormed |-> TRUE, isNull |-> TRUE, channel |-> "none",
      hasData |-> FALSE, data |-> <<>>]}
    \cup {[wellFormed |-> TRUE, isNull |-> FALSE, channel |-> c,
           hasData |-> FALSE, data |-> <<>>] : c \in {"allMids", "trades"}}
    \cup {[wellFormed |-> TRUE, isNull |-> FALSE, channel |-> "allMids",
           hasData |-> TRUE, data |-> d] : d \in Payloads}
    \cup {[wellFormed |-> TRUE, isNull |-> FALSE, channel |-> "trades",
           hasData |-> TRUE, data |-> d] : d \in PayloadsOf({Str(<<"1", "2">>)}, 1)}

\* a frame that is not JSON, and a mid-price update
CoreFrames ==
    {f \in Frames :
        \/ ~f.wellFormed
        \/ /\ f.channel = "allMids"
           /\ f.data = <<<<"BTC", Num(7)>>, <<"HYPE", Str(<<"1", "2">>)>>>>}

(***************************************************************************)
(* parseFloat: an optional sign, then the longest run of digits; NaN when  *)
(* there is no digit.  (The alphabet of the model has no decimal point.)   *)
(***************************************************************************)
Digits == {"0", "1", "2", "3", "4", "5", "6", "7", "8", "9"}

DigitVal(c) ==
    CASE c = "0" -> 0 [] c = "1" -> 1 [] c = "2" -> 2 [] c = "3" -> 3
      [] c = "4" -> 4 [] c = "5" -> 5 [] c = "6" -> 6 [] c = "7" -> 7
      [] c = "8" -> 8 [] c = "9" -> 9

NaN == [nan |-> TRUE, n |-> 0]
Number(n) == [nan |-> FALSE, n |-> n]

RECURSIVE ParseDigits(_, _, _)
\* the value of the run of digits of s that starts at i, given the value acc
\* of the digits before i
ParseDigits(s, i, acc) ==
    IF i > Len(s) \/ s[i] \notin Digits THEN acc
    ELSE ParseDigits(s, i + 1, 10 * acc + DigitVal(s[i]))

parseFloat(s) ==
    LET neg == Len(s) >= 1 /\ s[1] = "-"
        first == IF neg THEN 2 ELSE 1
    IN  IF first > Len(s) \/ s[first] \notin Digits THEN NaN
        ELSE IF neg THEN Number(0 - ParseDigits(s, first, 0))
        ELSE Number(ParseDigits(s, first, 0))

(***************************************************************************)
(* HyperliquidClient.subscribeToUpdates and the handlers it installs.      *)
(***************************************************************************)
\* the try block of subscribeToUpdates: new WebSocket(...) may throw
SubscribeBody(ok) == IF ok THEN "return" ELSE "throw"

\* a catch block of subscribeToUpdates that throws again
SubscribeCatchRethrows(outcome) == outcome

\* catch (error) { console.error(...) } of subscribeToUpdates: logs only
SubscribeCatch(outcome) == IF outcome = "throw" THEN "return" ELSE outcome

\* a subscribeToUpdates that first closes the connection it references
subscribeToUpdatesDedup(cb, ok, type, waited) ==
    /\ IF ok
       THEN LET closed == IF wsConnection = Null THEN conns
                          ELSE [conns EXCEPT ![wsConnection] =
                                   IF @.readyState \in {"CONNECTING", "OPEN"}
                                   THEN [@ EXCEPT !.readyState = "CLOSING"] ELSE @]
                slot == Min(FreeSlots(Collect(closed, Null)))
                made == [closed EXCEPT ![slot] =
                            [readyState |-> "CONNECTING", cb |-> cb, subs |-> 0]]
            IN  /\ wsConnection' = slot
                /\ conns' = Collect(made, slot)
                /\ lastEvent' = [Ev(type, slot, cb) EXCEPT
                                    !.constructed = TRUE, !.waited = waited]
       ELSE /\ UNCHANGED <<wsConnection, conns>>
            /\ lastEvent' = [Ev(type, Null, cb) EXCEPT !.waited = waited]

\* subscribeToUpdates(callback), called by `type` ("subscribe": a caller
\* outside the client, "reconnect": the reconnect timer, which had waited
\* `waited` seconds).  ok: whether new WebSocket(...) returns an object.
subscribeToUpdates(cb, ok, type, waited) ==
    /\ IF ok
       THEN LET slot == Min(FreeSlots(Collect(conns, Null)))
                made == [conns EXCEPT ![slot] =
                            [readyState |-> "CONNECTING", cb |-> cb, subs |-> 0]]
            IN  /\ wsConnection' = slot
                /\ conns' = Collect(made, slot)
                /\ lastEvent' = [Ev(type, slot, cb) EXCEPT
                                    !.constructed = TRUE, !.waited = waited]
       ELSE /\ UNCHANGED <<wsConnection, conns>>
            /\ lastEvent' = [Ev(type, Null, cb) EXCEPT
                                !.waited = waited,
                                !.raised = (SubscribeCatch(SubscribeBody(ok)) = "throw")]

\* a caller outside the client calls subscribeToUpdates(cb)
Subscribe(cb) ==
    /\ extCalls < MaxCalls
    /\ extCalls' = extCalls + 1
    /\ \E ok \in BOOLEAN : subscribeToUpdates(cb, ok, "subscribe", 0)
    /\ UNCHANGED <<timers, rest>>

\* what this.wsConnection.send(...) does, by the readiness of its target:
\* it throws while CONNECTING, transmits while OPEN, and drops the frame
\* silently while CLOSING or CLOSED
SendOutcome(readyState) ==
    CASE readyState = "CONNECTING" -> "throw"
      [] readyState = "OPEN" -> "sent"
      [] OTHER -> "dropped"

\* the connection the open handler of connection i sends the subscribe
\* message on: whatever this.wsConnection references when it runs
SendTarget(i) == wsConnection

\* open event of connection i, and the onopen handler
OnOpen(i) ==
    /\ conns[i].readyState = "CONNECTING"
    /\ LET opened == [conns EXCEPT ![i].readyState = "OPEN"]
           t == SendTarget(i)
           out == IF t = Null THEN "none" ELSE SendOutcome(opened[t].readyState)
       IN  /\ conns' = IF out = "sent"
                       THEN [opened EXCEPT ![t].subs = opened[t].subs + 1]
                       ELSE opened
           /\ lastEvent' = [Ev("open", i, conns[i].cb) EXCEPT
                               !.sentOn = IF out = "sent" THEN t ELSE Null,
                               !.raised = (out = "throw")]
    /\ UNCHANGED <<wsConnection, timers, extCalls, rest>>

\* the entries of a data object whose value is a string, in order
StringEntries(d) == SelectSeq(d, LAMBDA e : e[2].type = "string")

\* the MarketData built for an entry (the fields the entry decides)
MarketData(e) == [symbol |-> e[1], price |-> parseFloat(e[2].chars)]

\* the callback invocations the onmessage handler makes for a frame, when
\* the throwAt-th invocation throws (0: none does)
MessageCalls(msg, throwAt) ==
    IF ~msg.wellFormed \/ msg.isNull THEN <<>>
    ELSE IF msg.channel = "allMids" /\ msg.hasData
    THEN LET es == StringEntries(msg.data)
             n == IF throwAt \in 1..Len(es) THEN throwAt ELSE Len(es)
         IN  [k \in 1..n |-> MarketData(es[k])]
    ELSE <<>>

\* the try block of the onmessage handler: JSON.parse throws on a frame
\* that is not JSON, message.channel throws on null, a callback may throw
MessageBody(msg, throwAt) ==
    IF ~msg.wellFormed \/ msg.isNull THEN "throw"
    ELSE IF msg.channel = "allMids" /\ msg.hasData
            /\ throwAt \in 1..Len(StringEntries(msg.data)) THEN "throw"
    ELSE "return"

\* a catch block that logs and throws again, as the REST operations of
\* HyperliquidClient do
MessageCatchRethrows(outcome) == outcome

\* catch (error) { console.error(...) } of the onmessage handler
MessageCatch(outcome) == IF outcome = "throw" THEN "return" ELSE outcome

\* whether the step taken last was a fault of connection i that is only
\* logged: an error event, or a frame that JSON.parse or the channel test
\* rejects
FaultOn(i) ==
    /\ lastEvent.conn = i
    /\ \/ lastEvent.type = "error"
       \/ lastEvent.type = "message" /\ (~lastEvent.msg.wellFormed \/ lastEvent.msg.isNull)

\* message event of connection i with a frame of F, and the onmessage
\* handler
OnMessage(i, F) ==
    /\ conns[i].readyState = "OPEN"
    /\ \E msg \in F :
          \E throwAt \in 0..Len(StringEntries(msg.data)) :
             lastEvent' = [Ev("message", i, conns[i].cb) EXCEPT
                              !.msg = msg,
                              !.calls = MessageCalls(msg, throwAt),
                              !.raised = (MessageCatch(MessageBody(msg, throwAt)) = "throw"),
                              !.afterFault = FaultOn(i)]
    /\ UNCHANGED <<wsConnection, conns, timers, extCalls, rest>>

\* an onerror handler that closes the connection it is told about
OnErrorCloses(i) ==
    /\ conns[i].readyState \in {"CONNECTING", "OPEN", "CLOSING"}
    /\ conns' = [conns EXCEPT ![i].readyState = "CLOSING"]
    /\ lastEvent' = Ev("error", i, conns[i].cb)
    /\ UNCHANGED <<wsConnection, timers, extCalls, rest>>

\* error event of connection i, and the onerror handler: logs only
OnError(i) ==
    /\ conns[i].readyState \in {"CONNECTING", "OPEN", "CLOSING"}
    /\ lastEvent' = Ev("error", i, conns[i].cb)
    /\ UNCHANGED <<wsConnection, conns, timers, extCalls, rest>>

\* an onclose handler that schedules no reconnect
ScheduleNoReconnect(ts, cb) == ts

\* an onclose handler that schedules the reconnect twice
ScheduleReconnectTwice(ts, cb) ==
    Append(Append(ts, [cb |-> cb, elapsed |-> 0]), [cb |-> cb, elapsed |-> 0])

\* setTimeout(() => this.subscribeToUpdates(callback), 5000)
ScheduleReconnect(ts, cb) == Append(ts, [cb |-> cb, elapsed |-> 0])

\* close event of connection i, and the onclose handler
OnClose(i) ==
    /\ conns[i].readyState \in {"CONNECTING", "OPEN", "CLOSING"}
    /\ conns' = Collect([conns EXCEPT ![i].readyState = "CLOSED"], wsConnection)
    /\ timers' = ScheduleReconnect(timers, conns[i].cb)
    /\ lastEvent' = Ev("close", i, conns[i].cb)
    /\ UNCHANGED <<wsConnection, extCalls, rest>>

\* a timer set with no delay
TimerDueAtOnce(elapsed) == elapsed >= 0

\* whether a timer that has waited `elapsed` seconds is due
TimerDue(elapsed) == elapsed >= ReconnectDelay

\* the reconnect timer k fires: it calls subscribeToUpdates(callback)
Reconnect(k) ==
    /\ k \in 1..Len(timers)
    /\ TimerDue(timers[k].elapsed)
    /\ timers' = RemoveAt(timers, k)
    /\ \E ok \in BOOLEAN :
          subscribeToUpdates(timers[k].cb, ok, "reconnect", timers[k].elapsed)
    /\ UNCHANGED <<extCalls, rest>>

\* TickStep seconds pass (a timer that is due keeps its elapsed time at
\* ReconnectDelay: all that is read of it is whether it is due)
Tick ==
    /\ \E k \in 1..Len(timers) : timers[k].elapsed < ReconnectDelay
    /\ timers' = [k \in 1..Len(timers) |->
                    [timers[k] EXCEPT !.elapsed =
                        IF @ + TickStep < ReconnectDelay THEN @ + TickStep
                        ELSE ReconnectDelay]]
    /\ lastEvent' = Ev("tick", Null, "none")
    /\ UNCHANGED <<wsConnection, conns, extCalls, rest>>

\* WebSocket.close(): starts the closing handshake of a connection that is
\* connecting or open, and does nothing to one that is closing or closed
CloseCall(c) ==
    IF c.readyState \in {"CONNECTING", "OPEN"}
    THEN [c EXCEPT !.readyState = "CLOSING"]
    ELSE c

\* a disconnect() that forgets to clear the reference
DisconnectKeepsRef(ref) == ref

\* the reference disconnect() leaves in wsConnection
DisconnectRef(ref) == Null

\* a disconnect() that also clears the pending reconnect timers
DisconnectCancelsTimers ==
    /\ IF wsConnection # Null
       THEN /\ wsConnection' = Null
            /\ conns' = Collect([conns EXCEPT ![wsConnection] = CloseCall(@)], Null)
            /\ lastEvent' = [Ev("disconnect", wsConnection, "none") EXCEPT
                                !.closeCalled = TRUE,
                                !.afterDisconnect = (lastEvent.type = "disconnect")]
       ELSE /\ UNCHANGED <<wsConnection, conns>>
            /\ lastEvent' = [Ev("disconnect", Null, "none") EXCEPT
                                !.afterDisconnect = (lastEvent.type = "disconnect")]
    /\ timers' = <<>>
    /\ UNCHANGED <<extCalls, rest>>

\* HyperliquidClient.disconnect()
Disconnect ==
    /\ IF wsConnection # Null
       THEN /\ wsConnection' = DisconnectRef(wsConnection)
            /\ conns' = Collect([conns EXCEPT ![wsConnection] = CloseCall(@)],
                                DisconnectRef(wsConnection))
            /\ lastEvent' = [Ev("disconnect", wsConnection, "none") EXCEPT
                                !.closeCalled = TRUE,
                                !.afterDisconnect = (lastEvent.type = "disconnect")]
       ELSE /\ UNCHANGED <<wsConnection, conns>>
            /\ lastEvent' = [Ev("disconnect", Null, "none") EXCEPT
                                !.afterDisconnect = (lastEvent.type = "disconnect")]
    /\ UNCHANGED <<timers, extCalls, rest>>

\* an isConnected() that only tests the reference
isConnectedAnyState == wsConnection # Null

\* HyperliquidClient.isConnected(): this.wsConnection?.readyState === OPEN
isConnected ==
    IF wsConnection = Null THEN FALSE
    ELSE conns[wsConnection].readyState = "OPEN"

Next ==
    \/ \E cb \in Callbacks : Subscribe(cb) /\ UNCHANGED view
    \/ \E i \in ConnIds : OnOpen(i) /\ UNCHANGED view
    \/ \E i \in ConnIds : OnMessage(i, CoreFrames) /\ UNCHANGED view
    \/ \E i \in ConnIds : OnError(i) /\ UNCHANGED view
    \/ \E i \in ConnIds : OnClose(i) /\ UNCHANGED view
    \/ \E k \in 1..Len(timers) : Reconnect(k) /\ UNCHANGED view
    \/ Tick /\ UNCHANGED view
    \/ Disconnect /\ UNCHANGED view

Spec == Init /\ [][Next]_vars

\* the first subscribeToUpdates(cb) call of a caller outside the client
SubscribeFirst(cb) == extCalls = 0 /\ Subscribe(cb)

\* the message path in full: every frame of Frames, on the connection of a
\* client that is subscribed once
MsgNext ==
    \/ \E cb \in Callbacks : SubscribeFirst(cb) /\ UNCHANGED view
    \/ \E i \in ConnIds : OnOpen(i) /\ UNCHANGED view
    \/ \E i \in ConnIds : OnMessage(i, Frames) /\ UNCHANGED view
    \/ \E i \in ConnIds : OnError(i) /\ UNCHANGED view
    \/ \E i \in ConnIds : OnClose(i) /\ UNCHANGED view
    \/ \E k \in 1..Len(timers) : Reconnect(k) /\ UNCHANGED view
    \/ Tick /\ UNCHANGED view
    \/ Disconnect /\ UNCHANGED view

MsgSpec == Init /\ [][MsgNext]_vars

\* timers fire: the clock advances while a timer waits, and a timer that is
\* due runs its callback
FairSpec ==
    /\ Spec
    /\ WF_vars(Tick /\ UNCHANGED view)
    /\ \A k \in 1..MaxCalls : WF_vars(Reconnect(k) /\ UNCHANGED view)

\* the program when new WebSocket(...) never throws: every call of
\* subscribeToUpdates, by a caller or by a timer, constructs its socket
SubscribeOk(cb) == Subscribe(cb) /\ lastEvent'.constructed

ReconnectOk(k) == Reconnect(k) /\ lastEvent'.constructed

NoThrowNext ==
    \/ \E cb \in Callbacks : SubscribeOk(cb) /\ UNCHANGED view
    \/ \E i \in ConnIds : OnOpen(i) /\ UNCHANGED view
    \/ \E i \in ConnIds : OnMessage(i, CoreFrames) /\ UNCHANGED view
    \/ \E i \in ConnIds : OnError(i) /\ UNCHANGED view
    \/ \E i \in ConnIds : OnClose(i) /\ UNCHANGED view
    \/ \E k \in 1..Len(timers) : ReconnectOk(k) /\ UNCHANGED view
    \/ Tick /\ UNCHANGED view
    \/ Disconnect /\ UNCHANGED view

NoThrowSpec == Init /\ [][NoThrowNext]_vars

\* every slot a new connection needs is there (the slots bound nothing)
SlotsSuffice ==
    (Len(timers) > 0 \/ extCalls < MaxCalls) => FreeSlots(Collect(conns, Null)) # {}

TypeOK ==
    /\ wsConnection \in {Null} \cup ConnIds
    /\ \A i \in ConnIds : conns[i].readyState \in {"NONE", "CONNECTING", "OPEN", "CLOSING", "CLOSED"}
    /\ Len(timers) <= MaxCalls
    /\ extCalls \in 0..MaxCalls

(***************************************************************************)
(* BorosClient: the REST operations.  A call is decided by what fetch does: *)
(* it rejects (network error), or resolves with a status and a body; the   *)
(* body is not JSON ("invalid"), is JSON null ("null"), is an object       *)
(* without the field the operation reads ("empty"), with a falsy value of  *)
(* that field ("falsy"), or with the field ("full").                       *)
(***************************************************************************)
Responses ==
    {[kind |-> "reject", status |-> 0, body |-> "none"]}
    \cup {[kind |-> "http", status |-> st, body |-> "none"] : st \in {404, 500}}
    \cup {[kind |-> "http", status |-> 200, body |-> b] :
             b \in {"invalid", "null", "empty", "falsy", "full"}}

Return(v) == [outcome |-> "return", value |-> v]
Throw(msg) == [outcome |-> "throw", value |-> msg]

\* response.ok
Ok(resp) == resp.status >= 200 /\ resp.status <= 299

\* await fetch(...); if (!response.ok) throw ...; await response.json():
\* the parsed body, or the error thrown on the way
FetchJson(resp) ==
    IF resp.kind = "reject" THEN Throw(<<"Failed to fetch">>)
    ELSE IF ~Ok(resp) THEN Throw(<<"HTTP error! status: ", resp.status>>)
    ELSE IF resp.body = "invalid" THEN Throw(<<"Unexpected token in JSON">>)
    ELSE Return(resp.body)

\* data.<field> || <fallback>, for the parsed body data
FieldOr(data, field, fallback) ==
    IF data = "null" THEN Throw(<<"Cannot read properties of null">>)
    ELSE IF data = "full" THEN Return(field)
    ELSE Return(fallback)

\* what the service answers in the field of a "full" body
ServerYieldUnits ==
    <<[id |-> "yu-btc-777", asset |-> "BTC", maturity |-> 86400,
       currentRate |-> 300, impliedRate |-> 310, price |-> 97, volume |-> 10]>>
ServerRates == [a \in {"BTC", "ETH", "SOL"} |-> 200]
ServerPositions == <<[id |-> "pos-1"]>>
ServerTradeId == "trade-1"
ServerHistory == <<[timestamp |-> 5, rate |-> 70]>>

ThirtyDays == 30 * 24 * 60 * 60

\* BorosClient.getMockYieldUnits(), at time now
getMockYieldUnits(now) ==
    <<[id |-> "yu-btc-001", asset |-> "BTC", maturity |-> now + ThirtyDays,
       currentRate |-> 100, impliedRate |-> 120, price |-> 98, volume |-> 1500000],
      [id |-> "yu-eth-001", asset |-> "ETH", maturity |-> now + ThirtyDays,
       currentRate |-> 50, impliedRate |-> 80, price |-> 99, volume |-> 2500000]>>

\* the try block of getYieldUnits
getYieldUnitsBody(resp) ==
    LET r == FetchJson(resp)
    IN  IF r.outcome = "throw" THEN r ELSE FieldOr(r.value, ServerYieldUnits, <<>>)

\* BorosClient.getYieldUnits()
getYieldUnits(resp, now) ==
    LET r == getYieldUnitsBody(resp)
    IN  IF r.outcome = "throw" THEN Return(getMockYieldUnits(now)) ELSE r

\* the mapping getFundingRates returns from its catch block
MockFundingRates == [a \in {"BTC", "ETH"} |-> IF a = "BTC" THEN 100 ELSE 50]

\* the try block of getFundingRates
getFundingRatesBody(resp) ==
    LET r == FetchJson(resp)
    IN  IF r.outcome = "throw" THEN r ELSE FieldOr(r.value, ServerRates, EmptyRecord)

\* BorosClient.getFundingRates(), without its catch block
getFundingRatesRethrows(resp) == getFundingRatesBody(resp)

\* BorosClient.getFundingRates()
getFundingRates(resp) ==
    LET r == getFundingRatesBody(resp)
    IN  IF r.outcome = "throw" THEN Return(MockFundingRates) ELSE r

\* the try block of getPositions
getPositionsBody(resp) ==
    LET r == FetchJson(resp)
    IN  IF r.outcome = "throw" THEN r ELSE FieldOr(r.value, ServerPositions, <<>>)

\* BorosClient.getPositions(userAddress)
getPositions(resp) ==
    LET r == getPositionsBody(resp)
    IN  IF r.outcome = "throw" THEN Return(<<>>) ELSE r

\* the try block of placeTrade: { success: true, tradeId: data.tradeId }
placeTradeBody(resp) ==
    LET r == FetchJson(resp)
    IN  IF r.outcome = "throw" THEN r
        ELSE IF r.value = "null" THEN Throw(<<"Cannot read properties of null">>)
        ELSE Return([success |-> TRUE,
                     tradeId |-> IF r.value = "full" THEN ServerTradeId
                                 ELSE IF r.value = "falsy" THEN "null"
                                 ELSE "undefined",
                     error |-> <<>>])

\* BorosClient.placeTrade(params)
placeTrade(resp) ==
    LET r == placeTradeBody(resp)
    IN  IF r.outcome = "throw"
        THEN Return([success |-> FALSE, tradeId |-> "undefined", error |-> r.value])
        ELSE r

SecPerDay == 24 * 60 * 60

\* the values of (Math.random() - 0.5) * 0.00005 the model draws, in
\* millionths: the least one, zero, and one just under the upper end
Jitters == {-25, 0, 24}

\* getMockHistoricalRates with the loop stopping at i > 0: today's point is
\* left out
getMockHistoricalRatesSkipsToday(asset, days, now, js) ==
    [k \in 1..days |->
        LET i == days - (k - 1)
            baseRate == IF asset = "BTC" THEN 100 ELSE 50
        IN  [timestamp |-> now - i * SecPerDay, rate |-> baseRate + js[k]]]

\* BorosClient.getMockHistoricalRates(asset, days), at time now, with the
\* jitter js[k] drawn for the k-th point
getMockHistoricalRates(asset, days, now, js) ==
    [k \in 1..(days + 1) |->
        LET i == days - (k - 1)
            baseRate == IF asset = "BTC" THEN 100 ELSE 50
        IN  [timestamp |-> now - i * SecPerDay, rate |-> baseRate + js[k]]]

\* the try block of getHistoricalRates
getHistoricalRatesBody(resp) ==
    LET r == FetchJson(resp)
    IN  IF r.outcome = "throw" THEN r ELSE FieldOr(r.value, ServerHistory, <<>>)

\* BorosClient.getHistoricalRates(asset, days)
getHistoricalRates(resp, asset, days, now, js) ==
    LET r == getHistoricalRatesBody(resp)
    IN  IF r.outcome = "throw"
        THEN Return(getMockHistoricalRates(asset, days, now, js))
        ELSE r

Assets == {"BTC", "ETH", "SOL"}
Times == {3 * SecPerDay, 3 * SecPerDay + 1}
Users == {"0xA", "0xB"}
TradeParams ==
    [asset : Assets, side : {"LONG", "SHORT"}, size : {1, 2},
     marginType : {"CROSS", "ISOLATED"}]

\* a call in flight: the operation and its arguments
Pending(op, args) == [op |-> op, args |-> args, phase |-> "pending"]

\* a finished call: the operation, its arguments, what fetch did, the time,
\* and what the operation gave its caller
Done(op, args, resp, now, result) ==
    [op |-> op, args |-> args, phase |-> "done", resp |-> resp, now |-> now,
     result |-> result]

\* a caller starts an operation (one request is followed at a time)
CallBoros ==
    /\ rest.phase # "pending"
    /\ \/ rest' = Pending("getYieldUnits", <<>>)
       \/ rest' = Pending("getFundingRates", <<>>)
       \/ \E user \in Users : rest' = Pending("getPositions", <<user>>)
       \/ \E params \in TradeParams : rest' = Pending("placeTrade", <<params>>)
       \/ \E asset \in Assets, days \in 0..MaxDays :
             rest' = Pending("getHistoricalRates", <<asset, days>>)
    /\ UNCHANGED wsVars

SettleGetYieldUnits ==
    /\ rest.phase = "pending" /\ rest.op = "getYieldUnits"
    /\ \E resp \in Responses, now \in Times :
          rest' = Done(rest.op, rest.args, resp, now, getYieldUnits(resp, now))
    /\ UNCHANGED wsVars

SettleGetFundingRates ==
    /\ rest.phase = "pending" /\ rest.op = "getFundingRates"
    /\ \E resp \in Responses, now \in Times :
          rest' = Done(rest.op, rest.args, resp, now, getFundingRates(resp))
    /\ UNCHANGED wsVars

SettleGetPositions ==
    /\ rest.phase = "pending" /\ rest.op = "getPositions"
    /\ \E resp \in Responses, now \in Times :
          rest' = Done(rest.op, rest.args, resp, now, getPositions(resp))
    /\ UNCHANGED wsVars

SettlePlaceTrade ==
    /\ rest.phase = "pending" /\ rest.op = "placeTrade"
    /\ \E resp \in Responses, now \in Times :
          rest' = Done(rest.op, rest.args, resp, now, placeTrade(resp))
    /\ UNCHANGED wsVars

SettleGetHistoricalRates ==
    /\ rest.phase = "pending" /\ rest.op = "getHistoricalRates"
    /\ \E resp \in Responses, now \in Times :
          \E js \in [1..(rest.args[2] + 1) -> Jitters] :
             rest' = Done(rest.op, rest.args, resp, now,
                          getHistoricalRates(resp, rest.args[1], rest.args[2], now, js))
    /\ UNCHANGED wsVars

(***************************************************************************)
(* HyperliquidClient: the REST operations getCurrentPrice and getOrderBook. *)
(* A "full" body carries the HYPE mid price (field hype of the response)   *)
(* or the order book levels (field levels); numbers arrive as strings.     *)
(***************************************************************************)
MaxLevels == 2

\* x > 0 and x < 0 for a parsed number: both are false of NaN
Gt0(x) == ~x.nan /\ x.n > 0
Lt0(x) == ~x.nan /\ x.n < 0

\* Math.abs
MathAbs(x) == IF x.nan THEN NaN ELSE IF x.n < 0 THEN Number(0 - x.n) ELSE x

PriceStrings == {<<"1", "2">>, <<"0">>, <<"x">>}

LevelPrices == {<<"1", "0">>, <<"9">>}
LevelSizes == {<<"5">>, <<"-", "3">>, <<"0">>, <<"x">>}
RawLevels == [px : LevelPrices, sz : LevelSizes]

\* the levels arrays of at most MaxLevels levels
LevelSeqs == UNION {[1..n -> RawLevels] : n \in 0..MaxLevels}

\* what fetch did, with the HYPE price of a "full" allMids body
PriceResponses ==
    {[kind |-> r.kind, status |-> r.status, body |-> r.body, hype |-> h] :
        r \in {q \in Responses : q.body # "full"}, h \in {<<>>}}
    \cup {[kind |-> "http", status |-> 200, body |-> "full", hype |-> h] :
             h \in PriceStrings}

\* what fetch did, with the levels of a "full" l2Book body
BookResponses ==
    {[kind |-> r.kind, status |-> r.status, body |-> r.body, levels |-> l] :
        r \in {q \in Responses : q.body # "full"}, l \in {<<>>}}
    \cup {[kind |-> "http", status |-> 200, body |-> "full", levels |-> l] :
             l \in LevelSeqs}

\* the try block of getCurrentPrice
getCurrentPriceBody(resp) ==
    LET r == FetchJson(resp)
    IN  IF r.outcome = "throw" THEN r
        ELSE IF r.value = "null" THEN Throw(<<"Cannot read properties of null">>)
        ELSE IF r.value # "full" THEN Throw(<<"HYPE price not found in response">>)
        ELSE Return(parseFloat(resp.hype))

\* getCurrentPrice with a catch block that answers 0 instead of rethrowing
getCurrentPriceFallsBack(resp) ==
    LET r == getCurrentPriceBody(resp)
    IN  IF r.outcome = "throw" THEN Return(Number(0)) ELSE r

\* HyperliquidClient.getCurrentPrice(): the catch block logs and rethrows
getCurrentPrice(resp) ==
    LET r == getCurrentPriceBody(resp)
    IN  IF r.outcome = "throw" THEN Throw(r.value) ELSE r

\* level => [parseFloat(level.px), parseFloat(level.sz)]
ParseLevel(level) == <<parseFloat(level.px), parseFloat(level.sz)>>

\* the bids filter letting zero sizes through
IsBidOrZero(level) == ~level[2].nan /\ level[2].n >= 0

\* the bids filter: level[1] > 0
IsBid(level) == Gt0(level[2])

\* the asks filter: level[1] < 0
IsAsk(level) == Lt0(level[2])

\* level => [level[0], Math.abs(level[1])]
AskOf(level) == <<level[1], MathAbs(level[2])>>

\* the try block of getOrderBook
getOrderBookBody(resp, now) ==
    LET r == FetchJson(resp)
    IN  IF r.outcome = "throw" THEN r
        ELSE IF r.value = "null" THEN Throw(<<"Cannot read properties of null">>)
        ELSE IF r.value # "full"
        THEN Return([bids |-> <<>>, asks |-> <<>>, timestamp |-> now])
        ELSE LET parsed == [k \in 1..Len(resp.levels) |-> ParseLevel(resp.levels[k])]
                 asks == SelectSeq(parsed, IsAsk)
             IN  Return([bids |-> SelectSeq(parsed, IsBid),
                         asks |-> [k \in 1..Len(asks) |-> AskOf(asks[k])],
                         timestamp |-> now])

\* HyperliquidClient.getOrderBook(coin): the catch block logs and rethrows
getOrderBook(resp, now) ==
    LET r == getOrderBookBody(resp, now)
    IN  IF r.outcome = "throw" THEN Throw(r.value) ELSE r

Coins == {"HYPE", "BTC"}

\* a caller starts a HyperliquidClient operation
CallHyperliquid ==
    /\ rest.phase # "pending"
    /\ \/ rest' = Pending("getCurrentPrice", <<>>)
       \/ \E coin \in Coins : rest' = Pending("getOrderBook", <<coin>>)
    /\ UNCHANGED wsVars

SettleGetCurrentPrice ==
    /\ rest.phase = "pending" /\ rest.op = "getCurrentPrice"
    /\ \E resp \in PriceResponses, now \in Times :
          rest' = Done(rest.op, rest.args, resp, now, getCurrentPrice(resp))
    /\ UNCHANGED wsVars

SettleGetOrderBook ==
    /\ rest.phase = "pending" /\ rest.op = "getOrderBook"
    /\ \E resp \in BookResponses, now \in Times :
          rest' = Done(rest.op, rest.args, resp, now, getOrderBook(resp, now))
    /\ UNCHANGED wsVars

RestNext ==
    \/ CallBoros /\ UNCHANGED view
    \/ SettleGetYieldUnits /\ UNCHANGED view
    \/ SettleGetFundingRates /\ UNCHANGED view
    \/ SettleGetPositions /\ UNCHANGED view
    \/ SettlePlaceTrade /\ UNCHANGED view
    \/ SettleGetHistoricalRates /\ UNCHANGED view
    \/ CallHyperliquid /\ UNCHANGED view
    \/ SettleGetCurrentPrice /\ UNCHANGED view
    \/ SettleGetOrderBook /\ UNCHANGED view

RestSpec == Init /\ [][RestNext]_vars

(***************************************************************************)
(* MarketOverview: the component that owns one HyperliquidClient and one   *)
(* BorosClient.  Its effect runs fetchMarketData once: the price request,  *)
(* then the funding-rates request, then subscribeToUpdates with a callback *)
(* that stores each tick; the cleanup of the effect calls disconnect().    *)
(***************************************************************************)
\* the callback MarketOverview passes to subscribeToUpdates
ViewCallback == "cb1"

\* the mid-price updates the component is sent
ViewFrames ==
    {f \in Frames :
        /\ f.channel = "allMids"
        /\ f.hasData
        /\ f.data \in {<<<<"HYPE", Str(<<"1", "2">>)>>>>,
                        <<<<"HYPE", Str(<<"-", "3", "x">>)>>>>,
                        <<<<"BTC", Str(<<"1", "2">>)>>>>,
                        <<<<"BTC", Str(<<"1", "2">>)>>, <<"HYPE", Str(<<"1", "2">>)>>>>}}

\* an updater that drops the previous entries: prev => ({[data.symbol]: data})
SetMarketDataReplaces(prev, data) == [s \in {data.symbol} |-> data]

\* prev => ({...prev, [data.symbol]: data})
SetMarketData(prev, data) ==
    [s \in DOMAIN prev \cup {data.symbol} |->
        IF s = data.symbol THEN data ELSE prev[s]]

\* the callback given to subscribeToUpdates, called with the tick data
OnTick(v, data) ==
    [v EXCEPT !.marketData = SetMarketData(@, data),
              !.hypePrice = IF data.symbol = "HYPE" THEN <<data.price>> ELSE @]

RECURSIVE Deliver(_, _)
\* the view after the callback was called with each tick of calls, in order
Deliver(v, calls) ==
    IF calls = <<>> THEN v ELSE Deliver(OnTick(v, Head(calls)), Tail(calls))

\* catch (err) { setError(err.message) } finally { setLoading(false) }
ViewCatch(v, message) ==
    [v EXCEPT !.error = message, !.loading = FALSE, !.pc = "done"]

\* await hyperliquidClient.getCurrentPrice() settles: setHypePrice(price) and
\* the funding-rates request, or the catch and finally blocks
PriceSettles ==
    /\ view.pc = "price"
    /\ \E resp \in PriceResponses :
          LET r == getCurrentPrice(resp)
          IN  view' = IF r.outcome = "throw"
                      THEN [ViewCatch(view, r.value) EXCEPT !.priceFailed = TRUE]
                      ELSE [view EXCEPT !.hypePrice = <<r.value>>, !.pc = "rates"]
    /\ UNCHANGED <<wsVars, rest>>

\* await borosClient.getFundingRates() settles: setFundingRates(rates),
\* subscribeToUpdates(callback), and the finally block; or the catch and
\* finally blocks when a call throws
RatesSettles ==
    /\ view.pc = "rates"
    /\ \E resp \in Responses :
          LET r == getFundingRates(resp)
              failed == FetchJson(resp).outcome = "throw"
          IN  IF r.outcome = "throw"
              THEN /\ view' = [ViewCatch(view, r.value) EXCEPT !.ratesFailed = failed]
                   /\ UNCHANGED wsVars
              ELSE /\ extCalls' = extCalls + 1
                   /\ \E ok \in BOOLEAN : subscribeToUpdates(ViewCallback, ok, "subscribe", 0)
                   /\ view' =
                         IF lastEvent'.raised
                         THEN [ViewCatch(view, <<"WebSocket construction failed">>) EXCEPT
                                  !.fundingRates = r.value, !.ratesFailed = failed]
                         ELSE [view EXCEPT !.fundingRates = r.value, !.loading = FALSE,
                                           !.pc = "done", !.ratesFailed = failed]
                   /\ UNCHANGED timers
    /\ UNCHANGED rest

\* the point of the initialization the cleanup runs at
CleanupPoint ==
    IF view.pc = "price" THEN "price"
    ELSE IF view.pc = "rates" THEN "rates"
    ELSE IF wsConnection # Null /\ conns[wsConnection].readyState = "OPEN" THEN "connected"
    ELSE IF wsConnection # Null /\ conns[wsConnection].readyState = "CONNECTING" THEN "connecting"
    ELSE IF \E k \in 1..Len(timers) : ~TimerDue(timers[k].elapsed) THEN "delay"
    ELSE "other"

\* the component unmounts: the cleanup of the effect calls disconnect()
Cleanup ==
    /\ ~view.cleaned
    /\ Disconnect
    /\ view' = [view EXCEPT !.cleaned = TRUE, !.cleanedAt = CleanupPoint]

\* message event of connection i: the onmessage handler calls the
\* component's callback, which does not throw
ViewMessage(i) ==
    /\ OnMessage(i, ViewFrames)
    /\ lastEvent'.calls = MessageCalls(lastEvent'.msg, 0)
    /\ view' = Deliver(view, lastEvent'.calls)

\* the reconnect timer k of the component's client fires.  new WebSocket(url)
\* throws on the URL alone, and a timer exists only after a socket was
\* constructed with that URL: the construction succeeds again
ViewReconnect(k) == ReconnectOk(k) /\ UNCHANGED view

\* the close event of a connection on which close() was called
CloseCompletes(i) ==
    /\ conns[i].readyState = "CLOSING"
    /\ OnClose(i)
    /\ UNCHANGED view

ViewNext ==
    \/ PriceSettles
    \/ RatesSettles
    \/ Cleanup
    \/ \E i \in ConnIds : ViewMessage(i)
    \/ \E i \in ConnIds : OnOpen(i) /\ UNCHANGED view
    \/ \E i \in ConnIds : OnError(i) /\ UNCHANGED view
    \/ \E i \in ConnIds : OnClose(i) /\ UNCHANGED view
    \/ \E k \in 1..Len(timers) : ViewReconnect(k)
    \/ Tick /\ UNCHANGED view

ViewSpec == Init /\ [][ViewNext]_vars

\* timers fire and a closing handshake ends: the clock advances while a timer
\* waits, a due timer runs its callback, and close() is followed by the
\* close event
ViewFairSpec ==
    /\ ViewSpec
    /\ WF_vars(Tick /\ UNCHANGED view)
    /\ \A k \in 1..MaxCalls : WF_vars(ViewReconnect(k))
    /\ \A i \in ConnIds : WF_vars(CloseCompletes(i))

(***************************************************************************)
(* The streaming subscription: connections and reconnects.                 *)
(***************************************************************************)
Active == {i \in ConnIds : conns[i].readyState \in {"CONNECTING", "OPEN"}}

NotClosed == {i \in ConnIds : conns[i].readyState \in {"CONNECTING", "OPEN", "CLOSING"}}

\* C1 as stated: in every reachable state at most one connection of the
\* client is connecting or open.
C1_AtMostOneActive == Cardinality(Active) <= 1

\* C1 as amended: the connections not yet closed plus the pending reconnect
\* timers never outnumber the subscribeToUpdates calls of outside callers
\* (so a client subscribed once has at most one active connection, and none
\* while its reconnect timer is pending), and a connection opened by the
\* reconnect timer is opened only after 5 seconds of waiting.
C1_ActivePerCall ==
    /\ Cardinality(NotClosed) + Len(timers) <= extCalls
    /\ extCalls <= 1 => Cardinality(Active) <= 1
    /\ lastEvent.type = "reconnect" => lastEvent.waited >= 5

\* a reconnect has opened the only active connection of a client that was
\* subscribed once
C1_Witness ==
    /\ extCalls = 1
    /\ lastEvent.type = "reconnect"
    /\ lastEvent.constructed
    /\ Active = {lastEvent.conn}

\* The steps of C2: every close event schedules exactly one reconnect timer
\* with the callback of the closed connection; a timer is consumed only by
\* firing, each firing is one subscribeToUpdates call with the timer's
\* callback, made no earlier than 5 seconds after the close; nothing else
\* adds, removes or rewinds a timer.
C2_Steps ==
    [][/\ lastEvent'.type = "close" =>
            /\ Len(timers') = Len(timers) + 1
            /\ SubSeq(timers', 1, Len(timers)) = timers
            /\ timers'[Len(timers')].cb = conns[lastEvent'.conn].cb
            /\ timers'[Len(timers')].elapsed = 0
       /\ lastEvent'.type = "reconnect" =>
            /\ Len(timers') = Len(timers) - 1
            /\ lastEvent'.waited >= 5
            /\ \E k \in 1..Len(timers) :
                  /\ timers[k].cb = lastEvent'.cb
                  /\ timers[k].elapsed >= 5
                  /\ \A j \in 1..Len(timers') :
                        timers'[j] = IF j < k THEN timers[j] ELSE timers[j + 1]
            /\ lastEvent'.constructed =>
                  /\ conns'[lastEvent'.conn].cb = lastEvent'.cb
                  /\ conns'[lastEvent'.conn].readyState = "CONNECTING"
                  /\ conns[lastEvent'.conn].readyState \in {"NONE", "CLOSED"}
       /\ lastEvent'.type = "tick" =>
            /\ Len(timers') = Len(timers)
            /\ \A k \in 1..Len(timers) :
                  /\ timers'[k].cb = timers[k].cb
                  /\ timers'[k].elapsed >= timers[k].elapsed
                  /\ timers'[k].elapsed - timers[k].elapsed <= TickStep
       /\ lastEvent'.type \notin {"close", "reconnect", "tick"} => timers' = timers
      ]_vars

\* The progress of C2, when timers fire: a pending reconnect timer is
\* followed by a reconnect attempt.
C2_Progress == (Len(timers) > 0) ~> (lastEvent.type = "reconnect")

\* C2: after subscribeToUpdates(cb), every close event of a connection
\* causes exactly one new connection attempt, no earlier than 5 seconds
\* after the close and with the same callback.
C2_OneReconnectPerClose == C2_Steps /\ C2_Progress

\* a timer has fired after its 5 seconds and opened a connection
C2_Witness ==
    /\ lastEvent.type = "reconnect"
    /\ lastEvent.constructed
    /\ lastEvent.waited >= 5
    /\ conns[lastEvent.conn].cb = lastEvent.cb

\* C3, as a property of states: once subscribeToUpdates has been called the
\* subscription is never dead, that is, whenever no connection is active
\* there is a connection still closing or a reconnect timer pending (the
\* only things that lead to a new connection attempt).
C3_NeverTerminates ==
    (extCalls > 0 /\ Active = {}) => (NotClosed # {} \/ Len(timers) > 0)

\* C4: every open connection has had the subscribe message sent on it
\* exactly once, and the open handler of a connection sends on that
\* connection.
C4_OneSubscribePerOpen ==
    /\ \A i \in ConnIds : conns[i].readyState = "OPEN" => conns[i].subs = 1
    /\ lastEvent.type = "open" => lastEvent.sentOn = lastEvent.conn

\* C5: disconnect() never raises and leaves the reference null; a
\* disconnect() that directly follows a disconnect() calls no close() and
\* changes nothing.
C5_DisconnectIdempotent ==
    [][lastEvent'.type = "disconnect" =>
          /\ ~lastEvent'.raised
          /\ wsConnection' = Null
          /\ lastEvent.type = "disconnect" =>
                /\ wsConnection = Null
                /\ ~lastEvent'.closeCalled
                /\ <<wsConnection', conns', timers', extCalls'>>
                      = <<wsConnection, conns, timers, extCalls>>
      ]_vars

\* a second disconnect() in a row, after a first one that closed a connection
C5_Witness ==
    /\ lastEvent.type = "disconnect"
    /\ lastEvent.afterDisconnect
    /\ ~lastEvent.closeCalled
    /\ wsConnection = Null
    /\ \E i \in ConnIds : conns[i].readyState = "CLOSING"

\* C6: isConnected() is true exactly when the referenced connection exists
\* and is open; it is false before any subscribeToUpdates call, while the
\* referenced connection is connecting, closing or closed, and right after
\* disconnect().
C6_IsConnected ==
    /\ isConnected <=>
          \E i \in ConnIds : i = wsConnection /\ conns[i].readyState = "OPEN"
    /\ extCalls = 0 => ~isConnected
    /\ lastEvent.type = "disconnect" => ~isConnected
    /\ lastEvent.type \in {"subscribe", "reconnect"} /\ lastEvent.constructed
          => ~isConnected

\* isConnected() answers true
C6_Witness == isConnected /\ lastEvent.type = "open"

\* C7: neither subscribeToUpdates (called from outside or by the timer) nor
\* the message handler propagates an error.
C7_NeverRaises ==
    lastEvent.type \in {"subscribe", "reconnect", "message"} => ~lastEvent.raised

\* the handler has swallowed the error of a callback: it stopped before the
\* last string-valued entry
C7_Witness ==
    /\ lastEvent.type = "message"
    /\ lastEvent.calls # <<>>
    /\ Len(lastEvent.calls) < Len(StringEntries(lastEvent.msg.data))

\* C8: for an allMids frame with a data object the callback is invoked
\* exactly once per string-valued entry, with its symbol and parsed price,
\* and never for another entry; for any other frame it is not invoked.
C8_OncePerStringEntry ==
    lastEvent.type = "message" =>
        LET m == lastEvent.msg
            calls == lastEvent.calls
            For(sym) == {c \in 1..Len(calls) : calls[c].symbol = sym}
        IN  IF m.wellFormed /\ ~m.isNull /\ m.channel = "allMids" /\ m.hasData
            THEN /\ \A k \in 1..Len(m.data) :
                       IF m.data[k][2].type = "string"
                       THEN /\ Cardinality(For(m.data[k][1])) = 1
                            /\ \A c \in For(m.data[k][1]) :
                                  calls[c].price = parseFloat(m.data[k][2].chars)
                       ELSE For(m.data[k][1]) = {}
                 /\ \A c \in 1..Len(calls) :
                       \E k \in 1..Len(m.data) : m.data[k][1] = calls[c].symbol
            ELSE calls = <<>>

\* C9: a frame that is not JSON and a transport error event are logged
\* only: the step changes neither the reference nor any connection nor the
\* timers, invokes no callback and raises nothing; a well-formed update
\* that arrives next on the same connection is delivered.
C9_FaultsAreLoggedOnly ==
    [][/\ \/ lastEvent'.type = "error"
          \/ lastEvent'.type = "message" /\ ~lastEvent'.msg.wellFormed
          => /\ <<wsConnection', conns', timers', extCalls'>>
                   = <<wsConnection, conns, timers, extCalls>>
             /\ lastEvent'.calls = <<>>
             /\ ~lastEvent'.raised
       /\ /\ lastEvent'.type = "message"
          /\ lastEvent'.afterFault
          /\ lastEvent'.msg.wellFormed
          => /\ lastEvent'.conn = lastEvent.conn
             /\ lastEvent'.calls = <<[symbol |-> "HYPE", price |-> Number(12)]>>
      ]_vars

\* an update was delivered on a connection right after a fault on it
C9_Witness ==
    /\ lastEvent.type = "message"
    /\ lastEvent.afterFault
    /\ lastEvent.calls # <<>>
    /\ conns[lastEvent.conn].readyState = "OPEN"

(***************************************************************************)
(* The REST operations of BorosClient.                                     *)
(***************************************************************************)
BorosOps ==
    {"getYieldUnits", "getFundingRates", "getPositions", "placeTrade",
     "getHistoricalRates"}

\* a failure of the request: fetch rejects, the status is not a success, or
\* the body is not JSON
Failed(resp) ==
    \/ resp.kind = "reject"
    \/ resp.status < 200
    \/ resp.status > 299
    \/ resp.body = "invalid"

\* C10: no BorosClient operation propagates an error; on a failure
\* getFundingRates returns exactly {BTC: 0.0001, ETH: 0.00005},
\* getYieldUnits exactly the two mock units (BTC, then ETH), getPositions
\* the empty sequence, and placeTrade success=false with the error message.
C10_BorosFailsSoft ==
    rest.op \in BorosOps /\ rest.phase = "done" =>
        /\ rest.result.outcome = "return"
        /\ rest.op = "getFundingRates" /\ Failed(rest.resp) =>
              /\ DOMAIN rest.result.value = {"BTC", "ETH"}
              /\ rest.result.value["BTC"] = 100
              /\ rest.result.value["ETH"] = 50
        /\ rest.op = "getYieldUnits" /\ Failed(rest.resp) =>
              /\ Len(rest.result.value) = 2
              /\ rest.result.value[1].id = "yu-btc-001"
              /\ rest.result.value[1].asset = "BTC"
              /\ rest.result.value[2].id = "yu-eth-001"
              /\ rest.result.value[2].asset = "ETH"
              /\ \A k \in 1..2 : rest.result.value[k].maturity = rest.now + 2592000
        /\ rest.op = "getPositions" /\ Failed(rest.resp) => rest.result.value = <<>>
        /\ rest.op = "placeTrade" /\ Failed(rest.resp) =>
              /\ rest.result.value.success = FALSE
              /\ rest.result.value.error =
                    IF rest.resp.kind = "reject" THEN <<"Failed to fetch">>
                    ELSE IF rest.resp.body = "invalid" THEN <<"Unexpected token in JSON">>
                    ELSE <<"HTTP error! status: ", rest.resp.status>>

\* getFundingRates has answered a request that failed
C10_Witness ==
    /\ rest.op = "getFundingRates"
    /\ rest.phase = "done"
    /\ rest.resp.kind = "http"
    /\ rest.resp.status = 500
    /\ rest.result.outcome = "return"

\* C11: when the request fails, getHistoricalRates(asset, days) returns
\* exactly days + 1 points; consecutive timestamps are exactly one day apart
\* (so strictly increasing), the last timestamp is the current time, and each
\* rate is within 0.000025 of the base rate, 0.0001 for BTC and 0.00005 for
\* any other asset.
C11_MockHistory ==
    rest.op = "getHistoricalRates" /\ rest.phase = "done" /\ Failed(rest.resp) =>
        LET asset == rest.args[1]
            days == rest.args[2]
            points == rest.result.value
            base == IF asset = "BTC" THEN 100 ELSE 50
        IN  /\ rest.result.outcome = "return"
            /\ Len(points) = days + 1
            /\ \A k \in 1..(Len(points) - 1) :
                  /\ points[k + 1].timestamp - points[k].timestamp = 86400
                  /\ points[k].timestamp < points[k + 1].timestamp
            /\ points[Len(points)].timestamp = rest.now
            /\ \A k \in 1..Len(points) :
                  /\ points[k].rate - base <= 25
                  /\ base - points[k].rate <= 25

\* a failed request for two days of an asset other than BTC was answered with
\* three points of differing rates
C11_Witness ==
    /\ rest.op = "getHistoricalRates"
    /\ rest.phase = "done"
    /\ rest.resp.kind = "reject"
    /\ rest.args = <<"SOL", 2>>
    /\ Len(rest.result.value) = 3
    /\ rest.result.value[1].rate = 25
    /\ rest.result.value[3].rate = 74

RECURSIVE Side(_, _)
\* the levels of one side of the book ("bid": size > 0, "ask": size < 0)
\* among the raw levels, in their order, with the size made positive
Side(levels, side) ==
    IF levels = <<>> THEN <<>>
    ELSE LET px == parseFloat(Head(levels).px)
             sz == parseFloat(Head(levels).sz)
             others == Side(Tail(levels), side)
         IN  IF sz.nan \/ sz.n = 0 THEN others
             ELSE IF side = "bid" /\ sz.n > 0 THEN <<<<px, sz>>>> \o others
             ELSE IF side = "ask" /\ sz.n < 0 THEN <<<<px, Number(0 - sz.n)>>>> \o others
             ELSE others

\* C12: on a successful response getOrderBook returns as bids the levels of
\* size > 0 in input order and as asks the levels of size < 0 in input order
\* with the size replaced by its absolute value; every size returned is
\* strictly positive, a zero-size level is on neither side, and an empty or
\* missing levels field gives empty bids and empty asks without failing.
C12_OrderBookSides ==
    /\ rest.op = "getOrderBook"
    /\ rest.phase = "done"
    /\ ~Failed(rest.resp)
    /\ rest.resp.body # "null"
    =>  LET levels == rest.resp.levels
            book == rest.result.value
        IN  /\ rest.result.outcome = "return"
            /\ book.bids = Side(levels, "bid")
            /\ book.asks = Side(levels, "ask")
            /\ \A k \in 1..Len(book.bids) : ~book.bids[k][2].nan /\ book.bids[k][2].n > 0
            /\ \A k \in 1..Len(book.asks) : ~book.asks[k][2].nan /\ book.asks[k][2].n > 0
            /\ Len(book.bids) + Len(book.asks) =
                  Cardinality({k \in 1..Len(levels) :
                                  /\ ~parseFloat(levels[k].sz).nan
                                  /\ parseFloat(levels[k].sz).n # 0})
            /\ levels = <<>> => book.bids = <<>> /\ book.asks = <<>>

\* the book of the levels 10 x 5 and 9 x -3: one bid [10, 5], one ask [9, 3]
C12_Witness ==
    /\ rest.op = "getOrderBook"
    /\ rest.phase = "done"
    /\ rest.resp.body = "full"
    /\ rest.resp.levels = <<[px |-> <<"1", "0">>, sz |-> <<"5">>],
                            [px |-> <<"9">>, sz |-> <<"-", "3">>]>>
    /\ rest.result.outcome = "return"
    /\ rest.result.value.bids = <<<<Number(10), Number(5)>>>>
    /\ rest.result.value.asks = <<<<Number(9), Number(3)>>>>

\* C13: getCurrentPrice fails loud.  On a rejected request, a non-success
\* status or a body that is not JSON (or not an object) it throws the upstream
\* error; on a body without a HYPE price it throws "HYPE price not found in
\* response"; it never answers a failure with a fallback price, and it
\* returns a price only on a successful response that holds the symbol.
C13_PriceFailsLoud ==
    rest.op = "getCurrentPrice" /\ rest.phase = "done" =>
        /\ Failed(rest.resp) =>
              /\ rest.result.outcome = "throw"
              /\ rest.result.value =
                    IF rest.resp.kind = "reject" THEN <<"Failed to fetch">>
                    ELSE IF rest.resp.body = "invalid" THEN <<"Unexpected token in JSON">>
                    ELSE <<"HTTP error! status: ", rest.resp.status>>
        /\ ~Failed(rest.resp) /\ rest.resp.body = "null" =>
              rest.result.outcome = "throw"
        /\ ~Failed(rest.resp) /\ rest.resp.body \in {"empty", "falsy"} =>
              /\ rest.result.outcome = "throw"
              /\ rest.result.value = <<"HYPE price not found in response">>
        /\ rest.result.outcome = "return" =>
              /\ rest.resp.kind = "http"
              /\ rest.resp.status = 200
              /\ rest.resp.body = "full"
              /\ rest.result.value = parseFloat(rest.resp.hype)

\* getCurrentPrice has thrown on a 500 answer
C13_Witness ==
    /\ rest.op = "getCurrentPrice"
    /\ rest.phase = "done"
    /\ rest.resp.status = 500
    /\ rest.result.outcome = "throw"

(***************************************************************************)
(* MarketOverview.                                                         *)
(***************************************************************************)
\* the view shows the data: no error, a price, and subscribeToUpdates called
Ready == view.error = <<>> /\ view.hypePrice # <<>> /\ extCalls = 1

\* C14: the error field of MarketOverview is set only by a failure of
\* getCurrentPrice: a failed getFundingRates request leaves it null (the mock
\* rates are shown), no fault of the streaming subscription sets it, and once
\* fetchMarketData has finished loading is false and the view is in exactly
\* one of error and ready.
C14_ErrorOnlyFromPrice ==
    /\ view.error # <<>> <=> view.priceFailed
    /\ view.ratesFailed => view.error = <<>> /\ view.fundingRates = MockFundingRates
    /\ view.error # <<>> => extCalls = 0 /\ NotClosed = {} /\ timers = <<>>
    /\ view.pc # "done" => view.loading /\ view.error = <<>>
    /\ view.pc = "done" =>
          /\ ~view.loading
          /\ (view.error # <<>>) # Ready

\* the funding-rates request failed, the stream has had an error event, and
\* the view is ready
C14_Witness ==
    /\ view.pc = "done"
    /\ view.ratesFailed
    /\ lastEvent.type = "error"
    /\ view.error = <<>>
    /\ ~view.loading

\* C15: once the cleanup of MarketOverview has run, at whatever point of the
\* initialization, the component's client has no connection that is
\* connecting or open.
C15_NoConnectionAfterCleanup == view.cleaned => Active = {}

\* the last tick for symbol s among calls (calls has one)
LastTick(calls, s) ==
    LET k == CHOOSE j \in 1..Len(calls) :
                /\ calls[j].symbol = s
                /\ \A l \in (j + 1)..Len(calls) : calls[l].symbol # s
    IN  calls[k]

\* C18: a message that delivers ticks to the callback of MarketOverview leaves
\* in the tick map, for each symbol it has a tick for, the last such tick, and
\* leaves the entries of every other symbol as they were; it changes the
\* current price only if it has a tick for HYPE, to the price of the last one.
C18_LatestTickPerSymbol ==
    [][lastEvent'.type = "message" =>
         LET calls == lastEvent'.calls
             Has(s) == \E j \in 1..Len(calls) : calls[j].symbol = s
         IN  /\ \A s \in Symbols :
                   IF Has(s)
                   THEN /\ s \in DOMAIN view'.marketData
                        /\ view'.marketData[s] = LastTick(calls, s)
                   ELSE /\ s \in DOMAIN view'.marketData <=> s \in DOMAIN view.marketData
                        /\ s \in DOMAIN view.marketData =>
                              view'.marketData[s] = view.marketData[s]
             /\ view'.hypePrice =
                   IF Has("HYPE") THEN <<LastTick(calls, "HYPE").price>>
                   ELSE view.hypePrice
             /\ \A f \in {"pc", "fundingRates", "loading", "error"} : view'[f] = view[f]]_vars

\* a HYPE tick of -3 has replaced an earlier HYPE tick; the BTC entry is kept
C18_Witness ==
    /\ lastEvent.type = "message"
    /\ lastEvent.calls = <<[symbol |-> "HYPE", price |-> Number(0 - 3)]>>
    /\ DOMAIN view.marketData = {"BTC", "HYPE"}
    /\ view.marketData["BTC"].price = Number(12)
    /\ view.marketData["HYPE"].price = Number(0 - 3)
    /\ view.hypePrice = <<Number(0 - 3)>>

(***************************************************************************)
(* The streaming subscription: concurrent connections, disconnect() and    *)
(* the reconnect timer.                                                    *)
(***************************************************************************)
\* C16: a subscribeToUpdates call made by a caller while connections exist
\* opens one more connection without closing any: every connection that was
\* connecting, open or closing is left exactly as it was (so an open one goes
\* on delivering ticks to its own callback), the new connection is another
\* one, and wsConnection references the new one only.
C16_SecondSubscribeIsConcurrent ==
    /\ [][lastEvent'.type = "subscribe" /\ lastEvent'.constructed =>
            /\ wsConnection' = lastEvent'.conn
            /\ conns[wsConnection'].readyState \in {"NONE", "CLOSED"}
            /\ conns'[wsConnection'].readyState = "CONNECTING"
            /\ conns'[wsConnection'].cb = lastEvent'.cb
            /\ \A i \in NotClosed : i # wsConnection' /\ conns'[i] = conns[i]]_vars
    /\ [][lastEvent'.type = "message" =>
            /\ conns[lastEvent'.conn].readyState = "OPEN"
            /\ lastEvent'.cb = conns[lastEvent'.conn].cb]_vars

\* the open connection that wsConnection no longer references has delivered
\* ticks to its callback while the newer connection is open as well
C16_Witness ==
    /\ extCalls = 2
    /\ lastEvent.type = "message"
    /\ Len(lastEvent.calls) > 0
    /\ wsConnection # Null
    /\ lastEvent.conn # wsConnection
    /\ conns[wsConnection].readyState = "OPEN"
    /\ conns[lastEvent.conn].readyState = "OPEN"
    /\ conns[lastEvent.conn].cb # conns[wsConnection].cb

\* C17: disconnect() leaves every pending reconnect timer in place; when it
\* is called during the 5-second delay after a close, the timer still fires,
\* subscribeToUpdates opens a new connection and wsConnection is non-null
\* again.
C17_TimerSurvivesDisconnect ==
    /\ [][lastEvent'.type = "disconnect" => timers' = timers]_vars
    /\ (view.cleanedAt = "delay" /\ lastEvent.type = "disconnect" /\ wsConnection = Null)
          ~> (/\ lastEvent.type = "reconnect"
              /\ wsConnection # Null
              /\ conns[wsConnection].readyState = "CONNECTING")

\* disconnect() was called during the delay, and the timer has since opened
\* a connection
C17_Witness ==
    /\ view.cleanedAt = "delay"
    /\ lastEvent.type = "reconnect"
    /\ lastEvent.waited >= ReconnectDelay
    /\ wsConnection # Null
    /\ conns[wsConnection].readyState = "CONNECTING"

\* the cleanup called disconnect() on a connecting or open connection
DisconnectedLive == view.cleanedAt \in {"connecting", "connected"}

\* C19: disconnect() on a live connection does not end the subscription: the
\* connection it closes or the timer its close schedules is always there, and
\* the timer opens a new connection with the original callback no earlier
\* than 5 seconds later, with no further subscribeToUpdates call of a caller.
C19_DisconnectReconnects ==
    /\ [](DisconnectedLive =>
            /\ extCalls = 1
            /\ Cardinality(NotClosed) + Len(timers) = 1
            /\ \A i \in NotClosed : conns[i].cb = ViewCallback
            /\ \A k \in 1..Len(timers) : timers[k].cb = ViewCallback)
    /\ [][DisconnectedLive /\ lastEvent'.type = "close" =>
            timers' = Append(timers, [cb |-> ViewCallback, elapsed |-> 0])]_vars
    /\ (DisconnectedLive /\ lastEvent.type = "disconnect")
          ~> (/\ lastEvent.type = "reconnect"
              /\ lastEvent.cb = ViewCallback
              /\ lastEvent.waited >= ReconnectDelay
              /\ extCalls = 1
              /\ wsConnection # Null
              /\ conns[wsConnection].readyState = "CONNECTING")

\* after disconnect() on a live connection the timer has opened a new
\* connection with the component's callback
C19_Witness ==
    /\ DisconnectedLive
    /\ lastEvent.type = "reconnect"
    /\ lastEvent.cb = ViewCallback
    /\ extCalls = 1
    /\ wsConnection # Null
    /\ conns[wsConnection].readyState = "CONNECTING"

\* C20: when new WebSocket(...) never throws, the connections not yet closed
\* plus the pending reconnect timers are as many as the subscribeToUpdates
\* calls of outside callers, in every reachable state.
C20_ChainsConserved == Cardinality(NotClosed) + Len(timers) = extCalls

\* two chains after a disconnect() and a close: one in its reconnect delay,
\* one connected
C20_Witness ==
    /\ extCalls = 2
    /\ lastEvent.type = "close"
    /\ wsConnection = Null
    /\ Len(timers) = 1
    /\ Cardinality(NotClosed) = 1

====
